---- MODULE Spec2Model ----
(***************************************************************************)
(* Model of the two tool hooks of advanced/hooks:                          *)
(*   pre_tool_use.py   the Pre-Invocation Guard (rules + audit log)        *)
(*   post_tool_use.py  the Post-Invocation Logger (audit log only)         *)
(* Text is modelled as sequences of one-character strings, regular         *)
(* expressions as syntax trees matched by a small backtracking-free        *)
(* matcher, and a log file as the sequence of JSON tokens it holds.        *)
(***************************************************************************)
EXTENDS Integers, Sequences, FiniteSets, TLC

(***************************************************************************)
(* Text                                                                    *)
(***************************************************************************)

\* Characters str.split() and the regex class \s treat as whitespace.
Whitespace == {" ", "\t", "\n", "\r", "\f"}

Lower == {"a","b","c","d","e","f","g","h","i","j","k","l","m",
          "n","o","p","q","r","s","t","u","v","w","x","y","z"}

Upper == {"A","B","C","D","E","F","G","H","I","J","K","L","M",
          "N","O","P","Q","R","S","T","U","V","W","X","Y","Z"}

Letters == Lower \cup Upper

Digits == {"0","1","2","3","4","5","6","7","8","9"}

\* The regex class \w, which decides the word boundary \b.
WordChars == Letters \cup Digits \cup {"_"}

\* Python's `t in s` on strings: t occurs in s as a contiguous substring.
Contains(s, t) ==
    \E i \in 0..(Len(s) - Len(t)) : SubSeq(s, i + 1, i + Len(t)) = t

RECURSIVE SplitWords(_, _, _)
\* str.split(): the maximal runs of non-whitespace characters of s, in order.
\* i is the next position to read and cur the word being collected.
SplitWords(s, i, cur) ==
    IF i > Len(s)
    THEN IF cur = << >> THEN << >> ELSE << cur >>
    ELSE IF s[i] \in Whitespace
         THEN IF cur = << >>
              THEN SplitWords(s, i + 1, << >>)
              ELSE << cur >> \o SplitWords(s, i + 1, << >>)
         ELSE SplitWords(s, i + 1, Append(cur, s[i]))

RECURSIVE JoinWords(_)
\* " ".join(words)
JoinWords(ws) ==
    IF ws = << >> THEN << >>
    ELSE IF Len(ws) = 1 THEN ws[1]
    ELSE ws[1] \o << " " >> \o JoinWords(Tail(ws))

\* cmd = " ".join(command.split())
Normalize(command) == JoinWords(SplitWords(command, 1, << >>))

(***************************************************************************)
(* Regular expressions, as re.search evaluates them                        *)
(***************************************************************************)

ReSet(S)  == [t |-> "set", s |-> S]
ReLit(c)  == [t |-> "set", s |-> {c}]
ReAny     == [t |-> "any"]
ReWordB   == [t |-> "wordb"]
ReCat(rs) == [t |-> "cat", rs |-> rs]
ReAlt(rs) == [t |-> "alt", rs |-> rs]
ReStar(r) == [t |-> "star", r |-> r]
RePlus(r) == ReCat(<< r, ReStar(r) >>)
ReStr(w)  == ReCat([k \in DOMAIN w |-> ReLit(w[k])])

\* \b at offset i of s: exactly one of the characters around it is a \w.
AtWordBoundary(s, i) ==
    ((i > 0) /\ (s[i] \in WordChars)) # ((i < Len(s)) /\ (s[i + 1] \in WordChars))

RECURSIVE Ends(_, _, _), CatEnds(_, _, _, _), StarEnds(_, _, _)
\* The offsets at which a match of re that starts at offset i of s can end.
Ends(re, s, i) ==
    CASE re.t = "set"   -> IF i < Len(s) /\ s[i + 1] \in re.s THEN {i + 1} ELSE {}
      [] re.t = "any"   -> IF i < Len(s) /\ s[i + 1] # "\n" THEN {i + 1} ELSE {}
      [] re.t = "wordb" -> IF AtWordBoundary(s, i) THEN {i} ELSE {}
      [] re.t = "cat"   -> CatEnds(re.rs, 1, s, {i})
      [] re.t = "alt"   -> UNION {Ends(re.rs[k], s, i) : k \in DOMAIN re.rs}
      [] re.t = "star"  -> StarEnds(re.r, s, {i})

CatEnds(rs, k, s, from) ==
    IF k > Len(rs) \/ from = {} THEN from
    ELSE CatEnds(rs, k + 1, s, UNION {Ends(rs[k], s, i) : i \in from})

StarEnds(r, s, from) ==
    LET more == from \cup UNION {Ends(r, s, i) : i \in from}
    IN  IF more = from THEN from ELSE StarEnds(r, s, more)

\* re.search(pattern, s) is not None
Search(re, s) == \E i \in 0..Len(s) : Ends(re, s, i) # {}

(***************************************************************************)
(* pre_tool_use.py: the rules                                              *)
(***************************************************************************)

S_rm        == << "r", "m" >>
S_recursive == << "-", "-", "r", "e", "c", "u", "r", "s", "i", "v", "e" >>
S_force     == << "-", "-", "f", "o", "r", "c", "e" >>
S_env       == << ".", "e", "n", "v" >>
S_envSample == S_env \o << ".", "s", "a", "m", "p", "l", "e" >>
S_envExample == S_env \o << ".", "e", "x", "a", "m", "p", "l", "e" >>

ReWs      == ReSet(Whitespace)
ReLetters == ReStar(ReSet(Letters))
\* \brm\s+
ReRmHead  == << ReWordB, ReStr(S_rm), RePlus(ReWs) >>

\* rm_patterns, in list order.
rm_patterns ==
    << \* \brm\s+(-[a-zA-Z]*r[a-zA-Z]*f[a-zA-Z]*|--recursive\s+--force)
       ReCat(ReRmHead \o << ReAlt(<<
           ReCat(<< ReLit("-"), ReLetters, ReLit("r"), ReLetters, ReLit("f"), ReLetters >>),
           ReCat(<< ReStr(S_recursive), RePlus(ReWs), ReStr(S_force) >>) >>) >>),
       \* \brm\s+(-[a-zA-Z]*f[a-zA-Z]*r[a-zA-Z]*|--force\s+--recursive)
       ReCat(ReRmHead \o << ReAlt(<<
           ReCat(<< ReLit("-"), ReLetters, ReLit("f"), ReLetters, ReLit("r"), ReLetters >>),
           ReCat(<< ReStr(S_force), RePlus(ReWs), ReStr(S_recursive) >>) >>) >>),
       \* \brm\s+-[rR]f
       ReCat(ReRmHead \o << ReLit("-"), ReSet({"r", "R"}), ReLit("f") >>),
       \* \brm\s+-f[rR]
       ReCat(ReRmHead \o << ReLit("-"), ReLit("f"), ReSet({"r", "R"}) >>) >>

\* \brm\s+-[rR]f\s+[~/.]
rm_unsafe_target ==
    ReCat(ReRmHead \o << ReLit("-"), ReSet({"r", "R"}), ReLit("f"),
                         RePlus(ReWs), ReSet({"~", "/", "."}) >>)

dangerous_paths ==
    { << "/" >>, << "/", "*" >>, << "~" >>, << "$", "H", "O", "M", "E" >>,
      << ".", "." >>, << "*" >>, << "." >> }

\* Mutant: every recursive forced removal is dangerous, whatever it targets.
is_dangerous_rm_any_target(command) ==
    LET cmd == Normalize(command)
    IN  \E k \in DOMAIN rm_patterns : Search(rm_patterns[k], cmd)

is_dangerous_rm_command(command) ==
    LET cmd == Normalize(command)
    IN  \/ /\ \E k \in DOMAIN rm_patterns : Search(rm_patterns[k], cmd)
           /\ \E path \in dangerous_paths : Contains(cmd, path)
        \/ Search(rm_unsafe_target, cmd)

\* Mutant: copy and rename anchored to the file name, like cat and touch.
env_patterns_anchored ==
    << ReCat(<< ReStr(<< "c", "a", "t" >>), RePlus(ReWs), ReStr(S_env) >>),
       ReCat(<< ReStr(<< "e", "c", "h", "o" >>), RePlus(ReWs), ReStar(ReAny),
                ReLit(">"), ReStar(ReWs), ReStr(S_env) >>),
       ReCat(<< ReStr(<< "t", "o", "u", "c", "h" >>), RePlus(ReWs), ReStr(S_env) >>),
       ReCat(<< ReStr(<< "c", "p" >>), RePlus(ReWs), ReStr(S_env) >>),
       ReCat(<< ReStr(<< "m", "v" >>), RePlus(ReWs), ReStr(S_env) >>) >>

\* env_patterns, in list order.
env_patterns ==
    << \* cat\s+\.env
       ReCat(<< ReStr(<< "c", "a", "t" >>), RePlus(ReWs), ReStr(S_env) >>),
       \* echo\s+.*>\s*\.env
       ReCat(<< ReStr(<< "e", "c", "h", "o" >>), RePlus(ReWs), ReStar(ReAny),
                ReLit(">"), ReStar(ReWs), ReStr(S_env) >>),
       \* touch\s+\.env
       ReCat(<< ReStr(<< "t", "o", "u", "c", "h" >>), RePlus(ReWs), ReStr(S_env) >>),
       \* cp\s+.*\.env
       ReCat(<< ReStr(<< "c", "p" >>), RePlus(ReWs), ReStar(ReAny), ReStr(S_env) >>),
       \* mv\s+.*\.env
       ReCat(<< ReStr(<< "m", "v" >>), RePlus(ReWs), ReStar(ReAny), ReStr(S_env) >>) >>

\* dict.get(key, default)
Get(data, key, default) == IF key \in DOMAIN data THEN data[key] ELSE default

\* Mutant: the tool list without MultiEdit.
EnvToolsWithoutMultiEdit == {"Read", "Edit", "Write", "Bash"}

EnvTools == {"Read", "Edit", "MultiEdit", "Write", "Bash"}

is_env_file_access(tool_name, data) ==
    LET file_path == Get(data, "file_path", << >>)
        command   == Get(data, "command", << >>)
    IN  IF tool_name \notin EnvTools THEN FALSE
        ELSE IF file_path # << >> /\ Contains(file_path, S_env)
        THEN ~ (Contains(file_path, S_envSample) \/ Contains(file_path, S_envExample))
        ELSE /\ tool_name = "Bash"
             /\ Contains(command, S_env)
             /\ ~ (Contains(command, S_envSample) \/ Contains(command, S_envExample))
             /\ \E k \in DOMAIN env_patterns : Search(env_patterns[k], command)

ExitAllow == 0
ExitBlock == 2
\* The status of a Python process that ends on an uncaught exception.
ExitCrash == 1

\* main(), after the call of log_tool_call: the status handed to sys.exit.
Decide(data) ==
    LET tool_name == Get(data, "tool", "")
    IN  IF is_env_file_access(tool_name, data) THEN ExitBlock
        ELSE IF tool_name = "Bash" /\ is_dangerous_rm_command(Get(data, "command", << >>))
        THEN ExitBlock
        ELSE ExitAllow

(***************************************************************************)
(* The log file: JSON text as a sequence of tokens [t |-> kind]            *)
(*   "[" "]" ","      the punctuation of an array                          *)
(*   "obj"            the object json.dump writes for a record (field obj) *)
(*   "junk"           text that is no JSON                                 *)
(*   "badbytes"       bytes that do not decode in the file's encoding      *)
(***************************************************************************)

Tok(kind)  == [t |-> kind]
JsonObj(r) == [t |-> "obj", obj |-> r]

RECURSIVE DumpItems(_)
DumpItems(list) ==
    IF list = << >> THEN << >>
    ELSE IF Len(list) = 1 THEN << JsonObj(list[1]) >>
    ELSE << JsonObj(list[1]), Tok(",") >> \o DumpItems(Tail(list))

\* json.dump(logs, f, indent=2) for a list of records: the text written.
Dump(list) == << Tok("[") >> \o DumpItems(list) \o << Tok("]") >>

RECURSIVE ParseItems(_, _, _)
\* The rest of an array after "[": an object, then "," and more, or "]" at
\* the very end of the text. acc holds the objects read so far.
ParseItems(toks, i, acc) ==
    IF i + 1 > Len(toks) \/ toks[i].t # "obj" THEN [kind |-> "JSONDecodeError"]
    ELSE IF toks[i + 1].t = "]"
         THEN IF i + 1 = Len(toks)
              THEN [kind |-> "list", val |-> Append(acc, toks[i].obj)]
              ELSE [kind |-> "JSONDecodeError"]
         ELSE IF toks[i + 1].t = ","
              THEN ParseItems(toks, i + 2, Append(acc, toks[i].obj))
              ELSE [kind |-> "JSONDecodeError"]

\* json.load(f): f.read() decodes the whole file first, then the text is
\* parsed; the text must be exactly one JSON value.
Load(toks) ==
    IF \E i \in DOMAIN toks : toks[i].t = "badbytes" THEN [kind |-> "UnicodeDecodeError"]
    ELSE IF toks = << >> THEN [kind |-> "JSONDecodeError"]
    ELSE IF toks[1].t = "obj"
         THEN IF Len(toks) = 1 THEN [kind |-> "dict", val |-> toks[1].obj]
              ELSE [kind |-> "JSONDecodeError"]
    ELSE IF toks[1].t = "["
         THEN IF Len(toks) = 2 /\ toks[2].t = "]" THEN [kind |-> "list", val |-> << >>]
              ELSE ParseItems(toks, 2, << >>)
    ELSE [kind |-> "JSONDecodeError"]

\* f.write at offset 0 of a file opened with "w": the text replaces what
\* the file holds from its start; what lies beyond it (written meanwhile
\* through another handle) stays.
Overlay(old, new) == new \o SubSeq(old, Len(new) + 1, Len(old))

NoFile == [exists |-> FALSE, text |-> << >>, readable |-> TRUE, writable |-> TRUE]
FileOf(toks) == [exists |-> TRUE, text |-> toks, readable |-> TRUE, writable |-> TRUE]

Stages == {"pre", "post"}
SessionNames == {"s1", "s2", "unknown"}
\* log_dir / f"{stage}_tool_use_{session_id}.json", as the pair that names it.
LogFiles == Stages \X SessionNames

\* session_id = data.get("sessionId", "unknown")
SessionOf(data) == Get(data, "sessionId", "unknown")

(***************************************************************************)
(* The payloads the caller delivers on the input channel                   *)
(***************************************************************************)

S_rf == << "-", "r", "f" >>

\* Whitespace between the words of a command.
Gaps == { << " " >>, << " ", " " >>, << "\t" >>, << " ", "\n" >> }

\* rm -rf <token>, for every dangerous path token and every gap.
RmRfTokenCommands ==
    { S_rm \o g1 \o S_rf \o g2 \o tok :
        g1 \in Gaps, g2 \in Gaps, tok \in dangerous_paths }

\* Relative paths in which no dangerous path token occurs as a substring.
TokenFreePaths ==
    { << "b", "u", "i", "l", "d" >>,   \* build
      << "n", "o", "d", "e", "_", "m", "o", "d", "u", "l", "e", "s" >>,   \* node_modules
      << "o", "u", "t", "_", "d", "i", "r" >>,   \* out_dir
      << "t", "a", "r", "g", "e", "t" >>   \* target
    }

\* Relative paths that name nothing dangerous but contain `/` or `.`.
TokenBearingPaths ==
    { << "b", "u", "i", "l", "d", "/" >>,   \* build/
      << "s", "r", "c", "/", "g", "e", "n" >>,   \* src/gen
      << "d", "i", "s", "t", ".", "o", "l", "d" >>   \* dist.old
    }

OrdinaryRelativePaths == TokenFreePaths \cup TokenBearingPaths

\* rm -rf <path>, for every path of the set and a few gaps.
RmRfOf(paths) ==
    { S_rm \o g1 \o S_rf \o g2 \o path :
        g1 \in {<< " " >>, << " ", " " >>}, g2 \in {<< " " >>, << "\t" >>}, path \in paths }

\* Other spellings of the removal command.
OtherRmCommands ==
    { << "r", "m", " ", "-", "f", "r", " ", "b", "u", "i", "l", "d" >>,   \* rm -fr build
      << "r", "m", " ", "-", "R", "f", " ", "/", "o", "p", "t" >>,   \* rm -Rf /opt
      << "r", "m", " ", "-", "-", "r", "e", "c", "u", "r", "s", "i", "v", "e", " ", "-", "-", "f", "o", "r", "c", "e", " ", "~" >>,   \* rm --recursive --force ~
      << "r", "m", " ", "-", "-", "f", "o", "r", "c", "e", " ", "-", "-", "r", "e", "c", "u", "r", "s", "i", "v", "e", " ", "o", "u", "t" >>,   \* rm --force --recursive out
      << "r", "m", " ", "-", "r", " ", "b", "u", "i", "l", "d" >>,   \* rm -r build
      << "r", "m", " ", "-", "r", "f" >>,   \* rm -rf
      << "f", "a", "r", "m", " ", "-", "r", "f", " ", "/" >>,   \* farm -rf /
      << "r", "m", " ", "-", "r", "f", "v", " ", "*" >>   \* rm -rfv *
    }

\* Commands that print, redirect into, create, copy or rename the credentials file.
DirectAccessCommands ==
    { << "c", "a", "t", " ", ".", "e", "n", "v" >>,   \* cat .env
      << "c", "a", "t", " ", " ", ".", "e", "n", "v" >>,   \* cat  .env
      << "c", "a", "t", "\t", ".", "e", "n", "v" >>,   \* cat<TAB>.env
      << "e", "c", "h", "o", " ", "K", "E", "Y", "=", "1", " ", ">", " ", ".", "e", "n", "v" >>,   \* echo KEY=1 > .env
      << "e", "c", "h", "o", " ", "K", "E", "Y", "=", "1", " ", ">", ".", "e", "n", "v" >>,   \* echo KEY=1 >.env
      << "e", "c", "h", "o", " ", "K", "E", "Y", "=", "1", " ", ">", ">", " ", ".", "e", "n", "v" >>,   \* echo KEY=1 >> .env
      << "t", "o", "u", "c", "h", " ", ".", "e", "n", "v" >>,   \* touch .env
      << "c", "p", " ", ".", "e", "n", "v", " ", "b", "a", "c", "k", "u", "p" >>,   \* cp .env backup
      << "c", "p", " ", "b", "a", "c", "k", "u", "p", " ", ".", "e", "n", "v" >>,   \* cp backup .env
      << "m", "v", " ", ".", "e", "n", "v", " ", "o", "l", "d" >>,   \* mv .env old
      << "m", "v", " ", "o", "l", "d", " ", ".", "e", "n", "v" >>,   \* mv old .env
      << "c", "a", "t", " ", ".", "e", "n", "v", "r", "c" >>   \* cat .envrc
    }

\* Commands that name a safe template.
TemplateCommands ==
    { << "c", "a", "t", " ", ".", "e", "n", "v", ".", "s", "a", "m", "p", "l", "e" >>,   \* cat .env.sample
      << "c", "a", "t", " ", ".", "e", "n", "v", ".", "e", "x", "a", "m", "p", "l", "e" >>,   \* cat .env.example
      << "c", "p", " ", ".", "e", "n", "v", ".", "s", "a", "m", "p", "l", "e", " ", ".", "e", "n", "v" >>,   \* cp .env.sample .env
      << "c", "a", "t", " ", ".", "e", "n", "v", " ", ".", "e", "n", "v", ".", "e", "x", "a", "m", "p", "l", "e" >>   \* cat .env .env.example
    }

\* Commands that mention the credentials file and use no listed utility.
MentionOnlyCommands ==
    { << "l", "s", " ", ".", "e", "n", "v" >>,   \* ls .env
      << "g", "r", "e", "p", " ", "K", "E", "Y", " ", ".", "e", "n", "v" >>,   \* grep KEY .env
      << "e", "c", "h", "o", " ", "a", " ", ">", " ", "b", ";", " ", "l", "s", " ", ".", "e", "n", "v" >>,   \* echo a > b; ls .env
      << "w", "c", " ", "-", "l", " ", ".", "e", "n", "v" >>   \* wc -l .env
    }

\* Commands that mention the credentials file while a listed utility is used
\* on something unrelated.
UnrelatedUtilityCommands ==
    { << "c", "p", " ", "a", " ", "b", ";", " ", "l", "s", " ", ".", "e", "n", "v" >>,   \* cp a b; ls .env
      << "m", "v", " ", "a", " ", "b", " ", "&", "&", " ", "e", "c", "h", "o", " ", ".", "e", "n", "v" >>,   \* mv a b && echo .env
      << "s", "c", "p", " ", "a", " ", "b", ";", " ", "l", "s", " ", ".", "e", "n", "v" >>   \* scp a b; ls .env
    }

\* Commands with no `.env` substring.
NoEnvCommands ==
    { << "e", "c", "h", "o", " ", "h", "e", "l", "l", "o" >>,   \* echo hello
      << "l", "s" >>,   \* ls
      << "c", "a", "t", " ", "e", "n", "v" >>,   \* cat env
      << "c", "p", " ", "a", " ", "b" >>   \* cp a b
    }

\* File paths that contain `.env` and no safe template marker.
SensitivePaths ==
    { << ".", "e", "n", "v" >>,   \* .env
      << "c", "o", "n", "f", "i", "g", "/", ".", "e", "n", "v" >>,   \* config/.env
      << "a", "p", "p", "/", ".", "e", "n", "v", ".", "l", "o", "c", "a", "l" >>,   \* app/.env.local
      << "f", "r", "o", "n", "t", "e", "n", "d", ".", "e", "n", "v", ".", "d", "e", "p", "l", "o", "y", ".", "s", "h" >>   \* frontend.env.deploy.sh
    }

\* The safe templates.
TemplatePaths ==
    { << ".", "e", "n", "v", ".", "s", "a", "m", "p", "l", "e" >>,   \* .env.sample
      << ".", "e", "n", "v", ".", "e", "x", "a", "m", "p", "l", "e" >>   \* .env.example
    }

\* Other file paths.
OtherPaths ==
    { << "s", "r", "c", "/", "m", "a", "i", "n", ".", "p", "y" >>,   \* src/main.py
      << "m", "y", "e", "n", "v", ".", "c", "o", "n", "f", "i", "g" >>,   \* myenv.config
      << "c", "o", "n", "f", "/", ".", "e", "n", "v", ".", "s", "a", "m", "p", "l", "e", ".", "b", "a", "k" >>   \* conf/.env.sample.bak
    }

P_ls == << "l", "s" >>

P_rmRoot == << "r", "m", " ", "-", "r", "f", " ", "/" >>

P_catEnv == << "c", "a", "t", " ", ".", "e", "n", "v" >>

P_catEnvSample == << "c", "a", "t", " ", ".", "e", "n", "v", ".", "s", "a", "m", "p", "l", "e" >>
P_echoHello == << "e", "c", "h", "o", " ", "h", "e", "l", "l", "o" >>
P_mainPy == << "s", "r", "c", "/", "m", "a", "i", "n", ".", "p", "y" >>

FileTools == {"Read", "Edit", "MultiEdit", "Write"}

BashRecord(sid, cmd)        == [sessionId |-> sid, tool |-> "Bash", command |-> cmd]
FileRecord(sid, tool, path) == [sessionId |-> sid, tool |-> tool, file_path |-> path]

\* What the input channel delivers: a JSON object, another JSON value, or
\* text that is no JSON.
ObjectInput(r) == [kind |-> "object", val |-> r]
ArrayInput     == [kind |-> "array"]
TextInput      == [kind |-> "text"]

BashCommands ==
    RmRfTokenCommands \cup RmRfOf(OrdinaryRelativePaths) \cup OtherRmCommands
        \cup DirectAccessCommands \cup TemplateCommands \cup MentionOnlyCommands
        \cup UnrelatedUtilityCommands \cup NoEnvCommands

\* Records with unusual shapes: no sessionId, no tool, a shell command that
\* carries a file_path, a file tool that carries a command.
OddRecords ==
    { [tool |-> "Bash", command |-> P_rmRoot],
      [sessionId |-> "s2", command |-> P_rmRoot],
      [sessionId |-> "s2", tool |-> "Bash", command |-> P_catEnv,
       file_path |-> S_envSample],
      [sessionId |-> "s2", tool |-> "Bash", command |-> P_ls, file_path |-> S_env],
      [sessionId |-> "s2", tool |-> "Edit", command |-> P_rmRoot,
       file_path |-> P_mainPy] }

RuleRecords ==
    { BashRecord("s1", c) : c \in BashCommands }
        \cup { FileRecord("s1", t, path) :
                 t \in FileTools \cup {"Glob"},
                 path \in SensitivePaths \cup TemplatePaths \cup OtherPaths }
        \cup OddRecords

RulePayloads == { ObjectInput(r) : r \in RuleRecords }

\* A small set of records for the audit log: blocked and allowed ones, two
\* sessions and a record without a session.
R_rmRoot  == BashRecord("s1", P_rmRoot)
R_ls      == BashRecord("s1", P_ls)
R_editEnv == FileRecord("s1", "Edit", S_env)
R_read    == FileRecord("s2", "Read", P_mainPy)
R_anon    == [tool |-> "Bash", command |-> P_ls]
R_old     == FileRecord("s1", "Write", P_mainPy)

LogRecords  == { R_rmRoot, R_ls, R_editEnv, R_read, R_anon }
LogPayloads == { ObjectInput(r) : r \in LogRecords } \cup { ArrayInput, TextInput }

(***************************************************************************)
(* State                                                                   *)
(***************************************************************************)

Procs == {1, 2}

VARIABLES
    dir,        \* the logs directory: "absent", "present", or "blocked"
                \* (it is absent and cannot be created)
    files,      \* LogFiles -> [exists, text, readable, writable]
    pc,         \* each hook process: "idle", "mkdir", "exists", "read",
                \* "append", "open", "dump", "rules", "done"
    phase,      \* the phase of main() the process is in (index in Phases)
    stage,      \* which script the process runs: "pre" or "post"
    stdin,      \* what the input channel delivered to it
    data,       \* main(): data
    logs,       \* log_tool_call(): logs, a value json.load returned or []
    exit,       \* the exit status, meaningful when pc = "done"
    runs,       \* how many hook runs the process slot has started
    calls,      \* history: per log file, the records handed to the recorder
    snap,       \* history: the directory and files when the run started
    overlapped  \* history: a run started while another was in progress

vars == << dir, files, pc, phase, stage, stdin, data, logs, exit, runs,
           calls, snap, overlapped >>

EmptyList == [kind |-> "list", val |-> << >>]

\* Mutant: the rules first, the log after them.
PrePhasesRulesFirst == << "rules", "log" >>

\* main() of pre_tool_use.py after the input is read: log, then the rules.
PrePhases  == << "log", "rules" >>
\* main() of post_tool_use.py: log.
PostPhases == << "log" >>

PhasesOf(st) == IF st = "pre" THEN PrePhases ELSE PostPhases

\* The log file of a run.
LogFileOf(p) == << stage[p], SessionOf(data[p]) >>

\* Mutant: on input that is no JSON, go on with an empty record.
ReadInputDefaultsOnError(inp) ==
    CASE inp.kind = "text"   -> [do |-> "run", data |-> [tool |-> ""]]
      [] inp.kind = "array"  -> [do |-> "exit", status |-> ExitCrash]
      [] inp.kind = "object" -> [do |-> "run", data |-> inp.val]

\* What main() does with what json.load(sys.stdin) gives: JSONDecodeError is
\* caught and the process exits 0; on another value than an object the first
\* data.get raises AttributeError, which nothing catches.
ReadInput(inp) ==
    CASE inp.kind = "text"   -> [do |-> "exit", status |-> ExitAllow]
      [] inp.kind = "array"  -> [do |-> "exit", status |-> ExitCrash]
      [] inp.kind = "object" -> [do |-> "run", data |-> inp.val]

\* Control reaches phase k of the script: its first step, or sys.exit(0)
\* after the last phase.
Enter(p, st, k) ==
    /\ phase' = [phase EXCEPT ![p] = k]
    /\ IF k > Len(PhasesOf(st))
       THEN /\ pc' = [pc EXCEPT ![p] = "done"]
            /\ exit' = [exit EXCEPT ![p] = ExitAllow]
       ELSE /\ pc' = [pc EXCEPT ![p] = IF PhasesOf(st)[k] = "log" THEN "mkdir" ELSE "rules"]
            /\ UNCHANGED exit

\* The process ends with the given status.
ExitWith(p, status) ==
    /\ pc' = [pc EXCEPT ![p] = "done"]
    /\ exit' = [exit EXCEPT ![p] = status]
    /\ UNCHANGED phase

(***************************************************************************)
(* Actions                                                                 *)
(***************************************************************************)

\* The caller starts a hook process of one of the stages and delivers a
\* payload: main() up to the first phase.
Start(p, payloads, stages, limit) ==
    /\ pc[p] \in {"idle", "done"}
    /\ runs[p] < limit
    /\ \E st \in stages, inp \in payloads :
         LET r == ReadInput(inp)
         IN  /\ stage' = [stage EXCEPT ![p] = st]
             /\ stdin' = [stdin EXCEPT ![p] = inp]
             /\ IF r.do = "run"
                THEN /\ data' = [data EXCEPT ![p] = r.data]
                     /\ Enter(p, st, 1)
                ELSE /\ pc' = [pc EXCEPT ![p] = "done"]
                     /\ exit' = [exit EXCEPT ![p] = r.status]
                     /\ phase' = [phase EXCEPT ![p] = 0]
                     /\ UNCHANGED data
    /\ runs' = [runs EXCEPT ![p] = @ + 1]
    /\ snap' = [snap EXCEPT ![p] = [dir |-> dir, files |-> files]]
    /\ overlapped' = (overlapped \/ \E q \in Procs \ {p} : pc[q] \notin {"idle", "done"})
    /\ logs' = [logs EXCEPT ![p] = EmptyList]
    /\ UNCHANGED << dir, files, calls >>

\* log_dir.mkdir(parents=True, exist_ok=True); an OSError is not caught.
Mkdir(p) ==
    /\ pc[p] = "mkdir"
    /\ calls' = [calls EXCEPT ![LogFileOf(p)] = Append(@, data[p])]
    /\ IF dir = "blocked"
       THEN /\ ExitWith(p, ExitCrash)
            /\ UNCHANGED dir
       ELSE /\ dir' = "present"
            /\ pc' = [pc EXCEPT ![p] = "exists"]
            /\ UNCHANGED << phase, exit >>
    /\ UNCHANGED << files, stage, stdin, data, logs, runs, snap, overlapped >>

\* logs = []; if log_file.exists():
Exists(p) ==
    /\ pc[p] = "exists"
    /\ logs' = [logs EXCEPT ![p] = EmptyList]
    /\ pc' = [pc EXCEPT ![p] = IF files[LogFileOf(p)].exists THEN "read" ELSE "append"]
    /\ UNCHANGED << dir, files, phase, stage, stdin, data, exit, runs, calls,
                    snap, overlapped >>

\* try: logs = json.load(open(log_file)); except (JSONDecodeError, IOError):
\* logs = []. A UnicodeDecodeError is neither.
ReadLog(p) ==
    /\ pc[p] = "read"
    /\ LET f == files[LogFileOf(p)]
           v == Load(f.text)
       IN  IF ~ f.exists \/ ~ f.readable \/ v.kind = "JSONDecodeError"
           THEN /\ logs' = [logs EXCEPT ![p] = EmptyList]
                /\ pc' = [pc EXCEPT ![p] = "append"]
                /\ UNCHANGED << phase, exit >>
           ELSE IF v.kind = "UnicodeDecodeError"
           THEN /\ ExitWith(p, ExitCrash)
                /\ UNCHANGED logs
           ELSE /\ logs' = [logs EXCEPT ![p] = v]
                /\ pc' = [pc EXCEPT ![p] = "append"]
                /\ UNCHANGED << phase, exit >>
    /\ UNCHANGED << dir, files, stage, stdin, data, runs, calls, snap, overlapped >>

\* Mutant: logs.insert(0, data)
AppendRecFront(p) ==
    /\ pc[p] = "append"
    /\ IF logs[p].kind = "list"
       THEN /\ logs' = [logs EXCEPT ![p] = [kind |-> "list", val |-> << data[p] >> \o @.val]]
            /\ pc' = [pc EXCEPT ![p] = "open"]
            /\ UNCHANGED << phase, exit >>
       ELSE /\ ExitWith(p, ExitCrash)
            /\ UNCHANGED logs
    /\ UNCHANGED << dir, files, stage, stdin, data, runs, calls, snap, overlapped >>

\* Mutant: logs = [data]
AppendRecAlone(p) ==
    /\ pc[p] = "append"
    /\ logs' = [logs EXCEPT ![p] = [kind |-> "list", val |-> << data[p] >>]]
    /\ pc' = [pc EXCEPT ![p] = "open"]
    /\ UNCHANGED << phase, exit >>
    /\ UNCHANGED << dir, files, stage, stdin, data, runs, calls, snap, overlapped >>

\* logs.append(data); a value that is no list has no append, and the
\* AttributeError is not caught.
AppendRec(p) ==
    /\ pc[p] = "append"
    /\ IF logs[p].kind = "list"
       THEN /\ logs' = [logs EXCEPT ![p] = [kind |-> "list", val |-> Append(@.val, data[p])]]
            /\ pc' = [pc EXCEPT ![p] = "open"]
            /\ UNCHANGED << phase, exit >>
       ELSE /\ ExitWith(p, ExitCrash)
            /\ UNCHANGED logs
    /\ UNCHANGED << dir, files, stage, stdin, data, runs, calls, snap, overlapped >>

\* try: open(log_file, "w") truncates or creates the file; except IOError:
\* pass.
OpenWrite(p) ==
    /\ pc[p] = "open"
    /\ LET f == files[LogFileOf(p)]
       IN  IF f.exists /\ ~ f.writable
           THEN /\ Enter(p, stage[p], phase[p] + 1)
                /\ UNCHANGED files
           ELSE /\ files' = [files EXCEPT ![LogFileOf(p)] =
                                [@ EXCEPT !.exists = TRUE, !.text = << >>]]
                /\ pc' = [pc EXCEPT ![p] = "dump"]
                /\ UNCHANGED << phase, exit >>
    /\ UNCHANGED << dir, stage, stdin, data, logs, runs, calls, snap, overlapped >>

\* json.dump(logs, f, indent=2) and the close of the file.
DumpLogs(p) ==
    /\ pc[p] = "dump"
    /\ files' = [files EXCEPT ![LogFileOf(p)] =
                    [@ EXCEPT !.text = Overlay(@, Dump(logs[p].val))]]
    /\ Enter(p, stage[p], phase[p] + 1)
    /\ UNCHANGED << dir, stage, stdin, data, logs, runs, calls, snap, overlapped >>

\* The rule checks of main(): sys.exit(2) when a rule fires.
Rules(p) ==
    /\ pc[p] = "rules"
    /\ IF Decide(data[p]) = ExitBlock
       THEN ExitWith(p, ExitBlock)
       ELSE Enter(p, stage[p], phase[p] + 1)
    /\ UNCHANGED << dir, files, stage, stdin, data, logs, runs, calls, snap,
                    overlapped >>

\* The steps of a started hook process.
Hook(p) ==
    \/ Mkdir(p)
    \/ Exists(p)
    \/ ReadLog(p)
    \/ AppendRec(p)
    \/ OpenWrite(p)
    \/ DumpLogs(p)
    \/ Rules(p)

(***************************************************************************)
(* Specifications                                                          *)
(***************************************************************************)

\* How many hook runs one caller makes, one after the other.
MaxRuns == 3

NoData == [tool |-> ""]

InitProcs ==
    /\ pc = [p \in Procs |-> "idle"]
    /\ phase = [p \in Procs |-> 0]
    /\ stage = [p \in Procs |-> "pre"]
    /\ stdin = [p \in Procs |-> TextInput]
    /\ data = [p \in Procs |-> NoData]
    /\ logs = [p \in Procs |-> EmptyList]
    /\ exit = [p \in Procs |-> ExitAllow]
    /\ runs = [p \in Procs |-> 0]
    /\ calls = [f \in LogFiles |-> << >>]
    /\ snap = [p \in Procs |-> [dir |-> dir, files |-> files]]
    /\ overlapped = FALSE

\* A working file system on first use: no log file yet.
Init ==
    /\ dir \in {"absent", "present"}
    /\ files = [f \in LogFiles |-> NoFile]
    /\ InitProcs

\* One caller runs the hooks one after the other, in a working file system.
Next == Start(1, LogPayloads, Stages, MaxRuns) \/ Hook(1)

Spec == Init /\ [][Next]_vars

\* A working file system in which an earlier run may have left a log.
InitRules ==
    /\ dir \in {"absent", "present"}
    /\ \E old \in {NoFile, FileOf(Dump(<< R_old >>))} :
          /\ dir = "absent" => old = NoFile
          /\ files = [f \in LogFiles |-> IF f = << "pre", "s1" >> THEN old ELSE NoFile]
    /\ InitProcs

\* One run of the Guard on each payload of the rule corpus.
NextRules == Start(1, RulePayloads, {"pre"}, 1) \/ Hook(1)

SpecRules == InitRules /\ [][NextRules]_vars

\* What a log file may hold, or be, when something else than the hooks has
\* written it or set its permissions.
HostileFiles ==
    { FileOf(Dump(<< R_old >>)),                                 \* a valid log
      FileOf(<< Tok("["), Tok("]") >>),                          \* []
      FileOf(<< >>),                                             \* empty
      FileOf(<< Tok("junk") >>),                                 \* no JSON
      FileOf(<< Tok("["), JsonObj(R_old) >>),                    \* cut short
      FileOf(<< JsonObj(R_old) >>),                              \* one object
      FileOf(<< Tok("badbytes") >>),                             \* undecodable
      [FileOf(Dump(<< R_old >>)) EXCEPT !.readable = FALSE],     \* unreadable
      [FileOf(Dump(<< R_old >>)) EXCEPT !.writable = FALSE] }    \* read-only

EnvPayloads ==
    LogPayloads \cup
    { ObjectInput(BashRecord(sid, S_rm \o << " " >> \o S_rf \o g \o tok)) :
        sid \in {"s1", "s2"}, g \in {<< " " >>, << "\t" >>}, tok \in dangerous_paths }

\* Any file system: the logs directory may be impossible to create, and one
\* log file may hold anything.
InitEnv ==
    /\ dir \in {"absent", "present", "blocked"}
    /\ \/ files = [f \in LogFiles |-> NoFile]
       \/ /\ dir = "present"
          /\ \E g \in LogFiles, h \in HostileFiles :
                files = [f \in LogFiles |-> IF f = g THEN h ELSE NoFile]
    /\ InitProcs

NextEnv == Start(1, EnvPayloads, Stages, 1) \/ Hook(1)

SpecEnv == InitEnv /\ [][NextEnv]_vars

\* Two hook processes at once, each started once, in a working file system
\* whose logs of session s1 may already hold a record.
ConcPayloads(p) ==
    IF p = 1 THEN { ObjectInput(R_rmRoot), ObjectInput(R_read) }
             ELSE { ObjectInput(R_editEnv), ObjectInput(R_ls) }

InitConc ==
    /\ dir \in {"absent", "present"}
    /\ \E old \in SUBSET {<< "pre", "s1" >>, << "post", "s1" >>} :
          /\ dir = "absent" => old = {}
          /\ files = [f \in LogFiles |->
                        IF f \in old THEN FileOf(Dump(<< R_old >>)) ELSE NoFile]
    /\ InitProcs

NextConc == \E p \in Procs : Start(p, ConcPayloads(p), Stages, 1) \/ Hook(p)

SpecConc == InitConc /\ [][NextConc]_vars

(***************************************************************************)
(* Claims                                                                  *)
(***************************************************************************)

Done(p) == pc[p] = "done"

\* A finished run of the Guard on a JSON object.
GuardDone(p) == Done(p) /\ stage[p] = "pre" /\ stdin[p].kind = "object"

\* A finished run of the Guard on a shell command that carries only a
\* session, the tool and the command.
PlainBashDone(p) ==
    /\ GuardDone(p)
    /\ DOMAIN data[p] = {"sessionId", "tool", "command"}
    /\ data[p].tool = "Bash"

\* A finished run of the Guard on a file tool with a file path.
FileToolDone(p) ==
    /\ GuardDone(p)
    /\ Get(data[p], "tool", "") \in FileTools
    /\ "file_path" \in DOMAIN data[p]

HasToken(cmd) == \E tok \in dangerous_paths : Contains(cmd, tok)
IsSensitive(text) ==
    /\ Contains(text, S_env)
    /\ ~ Contains(text, S_envSample)
    /\ ~ Contains(text, S_envExample)

\* The log file of the run holds a sequence whose last record is the run's.
RecordIsLast(p) ==
    LET f == files[LogFileOf(p)]
        v == Load(f.text)
    IN  /\ f.exists
        /\ v.kind = "list"
        /\ v.val # << >>
        /\ v.val[Len(v.val)] = data[p]

\* C1: every run of the Guard on `rm -rf <dangerous path token>`, with any
\* whitespace between the words, ends in BLOCK (exit 2), whatever the
\* session and whatever the log file holds (the logs directory being there
\* or creatable).
C1_RmRfTokenAlwaysBlocked ==
    \A p \in Procs :
        (/\ GuardDone(p)
         /\ snap[p].dir # "blocked"
         /\ Get(data[p], "tool", "") = "Bash"
         /\ Get(data[p], "command", << >>) \in RmRfTokenCommands)
        => exit[p] = ExitBlock

\* C2, as stated: every run of the Guard on `rm -rf <ordinary relative path>`
\* (build/ among them) ends in ALLOW.
C2_OrdinaryPathAllowed ==
    \A p \in Procs :
        (PlainBashDone(p) /\ data[p].command \in RmRfOf(OrdinaryRelativePaths))
        => exit[p] = ExitAllow

\* C2, amended: a run of the Guard on `rm -rf <relative path>` ends in ALLOW
\* when no dangerous path token occurs anywhere in the command text, and in
\* BLOCK when one does (build/ contains `/`).
C2_TokenFreePathAllowed ==
    \A p \in Procs :
        (PlainBashDone(p) /\ data[p].command \in RmRfOf(OrdinaryRelativePaths))
        => exit[p] = IF HasToken(data[p].command) THEN ExitBlock ELSE ExitAllow

C2_Witness ==
    /\ PlainBashDone(1)
    /\ data[1].command \in RmRfOf(TokenFreePaths)
    /\ ~ HasToken(data[1].command)
    /\ exit[1] = ExitAllow

\* C3: a run of the Guard on a file tool ends in BLOCK when the file path
\* contains `.env` and neither `.env.sample` nor `.env.example`, and in ALLOW
\* when the file path is `.env.sample` or `.env.example`.
C3_FileToolEnvRule ==
    \A p \in Procs :
        FileToolDone(p)
        => /\ IsSensitive(data[p].file_path) => exit[p] = ExitBlock
           /\ data[p].file_path \in TemplatePaths => exit[p] = ExitAllow

C3_Witness ==
    /\ FileToolDone(1)
    /\ data[1].tool = "MultiEdit"
    /\ data[1].file_path \in SensitivePaths
    /\ exit[1] = ExitBlock

EnvCorpus ==
    DirectAccessCommands \cup TemplateCommands \cup MentionOnlyCommands
        \cup UnrelatedUtilityCommands \cup NoEnvCommands

\* C4, as stated: on a shell command the sensitive-path rule fires only when
\* the command contains `.env`, no safe template marker, and a direct-access
\* idiom; `cat .env` is BLOCK, `cat .env.sample` and `echo hello` are ALLOW;
\* a command that only mentions the file, a listed utility being used on
\* something unrelated, is not blocked.
C4_MentionNeverBlocked ==
    \A p \in Procs :
        (PlainBashDone(p) /\ data[p].command \in EnvCorpus)
        => /\ exit[p] = ExitBlock =>
                (IsSensitive(data[p].command) /\ data[p].command \in DirectAccessCommands)
           /\ data[p].command = P_catEnv => exit[p] = ExitBlock
           /\ data[p].command \in {P_catEnvSample, P_echoHello} => exit[p] = ExitAllow
           /\ data[p].command \in MentionOnlyCommands \cup UnrelatedUtilityCommands
                => exit[p] = ExitAllow

\* C4, amended: the rule fires only when the command contains `.env` and no
\* safe template marker, and it fires exactly on the direct-access commands
\* and on the commands in which cp or mv is followed, anywhere later in the
\* text, by `.env`; a command that mentions the file and uses no listed
\* utility is not blocked.
C4_BlockedExactlyOnPatterns ==
    \A p \in Procs :
        (PlainBashDone(p) /\ data[p].command \in EnvCorpus)
        => /\ exit[p] = ExitBlock => IsSensitive(data[p].command)
           /\ exit[p] = ExitBlock <=>
                data[p].command \in DirectAccessCommands \cup UnrelatedUtilityCommands
           /\ exit[p] \in {ExitAllow, ExitBlock}

C4_Witness ==
    /\ PlainBashDone(1)
    /\ data[1].command \in UnrelatedUtilityCommands
    /\ exit[1] = ExitBlock

C6_LogHoldsCallsInOrder ==
    pc[1] \in {"idle", "done"}
    => \A f \in LogFiles :
          IF calls[f] = << >>
          THEN ~ files[f].exists
          ELSE /\ files[f].exists
               /\ Load(files[f].text) = [kind |-> "list", val |-> calls[f]]

C6_Witness ==
    /\ Done(1)
    /\ \E sid \in SessionNames :
          LET c == calls[<< "post", sid >>]
          IN  /\ Len(c) = 2
              /\ c[1] # c[2]
              /\ Load(files[<< "post", sid >>].text).val = c
    /\ \E sid \in SessionNames : calls[<< "pre", sid >>] # << >>

\* The log file of the run held, when the run started, something else than
\* a readable sequence.
InvalidAtStart(p) ==
    LET f == snap[p].files[LogFileOf(p)]
    IN  f.exists /\ (~ f.readable \/ Load(f.text).kind # "list")

\* C7: when the log file holds invalid content of any kind, the next append
\* ends without an error and leaves a file that holds exactly the new
\* record.
C7_InvalidLogReplaced ==
    \A p \in Procs :
        (Done(p) /\ stdin[p].kind = "object" /\ InvalidAtStart(p))
        => /\ exit[p] # ExitCrash
           /\ Load(files[LogFileOf(p)].text) = [kind |-> "list", val |-> << data[p] >>]

\* The run met a logs directory that cannot be created, or a log file that
\* cannot be read or written.
LogFailure(p) ==
    LET f == snap[p].files[LogFileOf(p)]
    IN  \/ snap[p].dir = "blocked"
        \/ f.exists /\ (~ f.readable \/ ~ f.writable)

\* C8: a failure to create the logs directory or to read or write the log
\* file never propagates: the Guard signals what its rules decide, the
\* Logger signals success.
C8_LogFailureSwallowed ==
    \A p \in Procs :
        (Done(p) /\ stdin[p].kind = "object" /\ LogFailure(p))
        => exit[p] = IF stage[p] = "pre" THEN Decide(data[p]) ELSE ExitAllow

BothDone == \A p \in Procs : Done(p) /\ runs[p] = 1
SameFile == LogFileOf(1) = LogFileOf(2)

\* The shared log file ends with the two records, in the order of the calls.
HoldsBothInOrder ==
    LET f == LogFileOf(1)
        v == Load(files[f].text)
    IN  /\ v.kind = "list"
        /\ Len(v.val) >= 2
        /\ SubSeq(v.val, Len(v.val) - 1, Len(v.val)) = calls[f]

\* One of the two records is not in the shared log file.
RecordLost ==
    LET v == Load(files[LogFileOf(1)].text)
    IN  \/ v.kind # "list"
        \/ \E p \in Procs : \A i \in DOMAIN v.val : v.val[i] # data[p]

\* C10: when two hook processes have appended to the same log file, a record
\* is missing only if their runs overlapped; when one ran after the other
\* the file ends with both records in call order.
C10_LossOnlyWhenOverlapped ==
    (BothDone /\ SameFile) => (overlapped \/ HoldsBothInOrder)

\* C10, the reachable loss: both processes have completed and the file
\* lacks one of the two records.
C10_Witness ==
    /\ BothDone
    /\ SameFile
    /\ \A p \in Procs : exit[p] \in {ExitAllow, ExitBlock}
    /\ Load(files[LogFileOf(1)].text).kind = "list"
    /\ RecordLost

====
